---- MODULE Spec2Model ----
(***************************************************************************)
(* FlashLi, the Protectli BIOS flasher: main.py (the run from import to    *)
(* the end of main()) and flashli/configurations.py (the catalog).         *)
(*                                                                         *)
(* Text that the program only compares or concatenates is a TLA+ string.   *)
(* Text that the program takes apart character by character (a catalog     *)
(* key under str.upper() and list.sort(), an input line under int()) is a  *)
(* sequence of one-character strings.                                      *)
(***************************************************************************)
EXTENDS Integers, Sequences, FiniteSets, TLC

(***************************************************************************)
(* Bounds of the model.                                                    *)
(***************************************************************************)
\* the operator types at most this many rejected lines before an accepted one
MaxInvalid == 2
\* the external writer exits with a status in 0..MaxExitStatus
MaxExitStatus == 3

(***************************************************************************)
(* Characters: code points of the characters that occur.                   *)
(***************************************************************************)
Lower == <<"a","b","c","d","e","f","g","h","i","j","k","l","m",
           "n","o","p","q","r","s","t","u","v","w","x","y","z">>
Upper == <<"A","B","C","D","E","F","G","H","I","J","K","L","M",
           "N","O","P","Q","R","S","T","U","V","W","X","Y","Z">>
Digits == <<"0","1","2","3","4","5","6","7","8","9">>

Range(s) == {s[i] : i \in 1..Len(s)}
IndexOf(s, c) == CHOOSE i \in 1..Len(s) : s[i] = c

\* ord(c)
Ord(c) ==
    IF c \in Range(Digits) THEN 47 + IndexOf(Digits, c)
    ELSE IF c \in Range(Upper) THEN 64 + IndexOf(Upper, c)
    ELSE IF c \in Range(Lower) THEN 96 + IndexOf(Lower, c)
    ELSE IF c = " " THEN 32
    ELSE IF c = "+" THEN 43
    ELSE 45                                  \* "-"

\* str.upper(), one character
UpperChar(c) == IF c \in Range(Lower) THEN Upper[IndexOf(Lower, c)] ELSE c

\* str.upper()
StrUpper(s) == [i \in 1..Len(s) |-> UpperChar(s[i])]

\* str.__lt__: lexicographic by code point, a proper prefix is smaller
RECURSIVE StrLess(_, _)
StrLess(a, b) ==
    IF b = <<>> THEN FALSE
    ELSE IF a = <<>> THEN TRUE
    ELSE IF Ord(Head(a)) # Ord(Head(b)) THEN Ord(Head(a)) < Ord(Head(b))
    ELSE StrLess(Tail(a), Tail(b))

\* list.sort() on a list of str: the ascending, stable order
RECURSIVE InsertSorted(_, _)
InsertSorted(x, sorted) ==
    IF sorted = <<>> THEN <<x>>
    ELSE IF StrLess(x, Head(sorted)) THEN <<x>> \o sorted
    ELSE <<Head(sorted)>> \o InsertSorted(x, Tail(sorted))

RECURSIVE ListSort(_)
ListSort(l) ==
    IF l = <<>> THEN <<>>
    ELSE InsertSorted(l[Len(l)], ListSort(SubSeq(l, 1, Len(l) - 1)))

\* str.format() of a template with the one slot {0}
Format(template, arg) == template.pre \o arg \o template.post

(***************************************************************************)
(* flashli/configurations.py                                               *)
(***************************************************************************)
flash_command == [pre |-> "vendor/flashrom -p internal -w ", post |-> " --ifd -i bios"]
overrider_command ==
    [pre |-> "vendor/flashrom -p internal:boardmismatch=force -w ", post |-> " --ifd -i bios"]
vpxxxx_flash_command == [pre |-> "vendor/flashrom -p internal -w ", post |-> ""]
vpxxxx_upgrade ==
    [pre |-> "vendor/flashrom -p internal -w ", post |-> " --fmap -i RW_SECTION_A"]

fw2 == <<"f","w","2">>
fw2b == <<"f","w","2","b">>
fw1 == <<"f","w","1">>
fw4a == <<"f","w","4","a">>
fw4b == <<"f","w","4","b">>
fw4c == <<"f","w","4","c">>
fw6a == <<"f","w","6","a">>
fw6ar == <<"f","w","6","a","r">>
fw6b == <<"f","w","6","b">>
fw6br == <<"f","w","6","b","r">>
fw6br2 == <<"f","w","6","b","r","2">>
fw6c == <<"f","w","6","c">>
fw6m == <<"f","w","6","m">>
fw6d == <<"f","w","6","d">>
fw6e == <<"f","w","6","e">>
vp2410 == <<"v","p","2","4","1","0">>
vp2410r == <<"v","p","2","4","1","0","r">>
vp4630 == <<"v","p","4","6","3","0">>
vp4650 == <<"v","p","4","6","5","0">>

Bios(vendor, file) == [vendor |-> vendor, file |-> file]
\* a variant of the fw6 descriptor list whose second entry repeats the vendor
Fw6All_SameVendor ==
    << Bios("ami", "FW6_all_YKBR6L12.bin"),
       Bios("ami", "protectli_all_fw6_vault_kbl_v1.0.14.rom") >>

Fw6All ==
    << Bios("ami", "FW6_all_YKBR6L12.bin"),
       Bios("coreboot", "protectli_all_fw6_vault_kbl_v1.0.14.rom") >>

\* the keys of CONFIGURATIONS in declaration order (dict order)
ConfigurationKeys ==
    << fw2, fw2b, fw1, fw4a, fw4b, fw4c, fw6a, fw6ar, fw6b, fw6br, fw6br2,
       fw6c, fw6m, fw6d, fw6e, vp2410, vp2410r, vp4630, vp4650 >>

\* the mapping, as it reads once the entries vp4630 and vp4650 are separated
CONFIGURATIONS ==
    (fw2 :> [cpu |-> "J1800", bios |-> << Bios("ami", "FW2_BTL4A012.bin") >>,
             command |-> flash_command])
 @@ (fw2b :> [cpu |-> "J3060",
              bios |-> << Bios("ami", "FW2B_BSW4L011.bin"),
                          Bios("coreboot", "protectli_fw2b_v4.9.0.2.rom") >>,
              command |-> flash_command])
 @@ (fw1 :> [cpu |-> "J1900", bios |-> << Bios("ami", "FW1_BTL4A012.bin") >>,
             command |-> flash_command])
 @@ (fw4a :> [cpu |-> "E3845", bios |-> << Bios("ami", "FW4A_E38L4A12.bin") >>,
              command |-> flash_command])
 @@ (fw4b :> [cpu |-> "J3160",
              bios |-> << Bios("ami", "FW4B_BSW4L011.bin"),
                          Bios("coreboot", "protectli_fw4b_v4.12.0.7.rom") >>,
              command |-> flash_command])
 @@ (fw4c :> [cpu |-> "J3710", bios |-> << Bios("ami", "FW4C_220921.bin") >>,
              command |-> flash_command])
 @@ (fw6a :> [cpu |-> "3865U", bios |-> Fw6All, command |-> flash_command])
 @@ (fw6ar :> [cpu |-> "3867U", bios |-> Fw6All, command |-> flash_command])
 @@ (fw6b :> [cpu |-> "7100U", bios |-> Fw6All, command |-> flash_command])
 @@ (fw6br :> [cpu |-> "7020U", bios |-> Fw6All, command |-> flash_command])
 @@ (fw6br2 :> [cpu |-> "8130U", bios |-> Fw6All, command |-> flash_command])
 @@ (fw6c :> [cpu |-> "7200U", bios |-> Fw6All, command |-> flash_command])
 @@ (fw6m :> [cpu |-> "FW6MC",
              bios |-> << Bios("ami", "FW6_825_KBU6LA09.bin"),
                          Bios("coreboot", "protectli_all_fw6_vault_kbl_v1.0.14.rom") >>,
              command |-> flash_command])
 @@ (fw6d :> [cpu |-> "8250U", bios |-> Fw6All, command |-> flash_command,
              override |-> overrider_command])
 @@ (fw6e :> [cpu |-> "8550U", bios |-> Fw6All, command |-> flash_command,
              override |-> overrider_command])
 @@ (vp2410 :> [cpu |-> "J4125",
                bios |-> << Bios("ami", "VP2410_GLK4L260.bin"),
                            Bios("coreboot", "protectli_vp2410_DF_1.0.9.rom") >>,
                command |-> vpxxxx_flash_command])
 @@ (vp2410r :> [cpu |-> "J4125",
                 bios |-> << Bios("ami", "VP2410_GML4AV30.bin"),
                             Bios("coreboot", "protectli_vp2410_DF_v1.0.15.rom") >>,
                 command |-> vpxxxx_flash_command])
 @@ (vp4630 :> [cpu |-> "10110U",
                bios |-> << Bios("ami", "vp4630_YW6L2314.bin"),
                            Bios("coreboot", "protectli_vp4630_v1.0.17.rom") >>,
                command |-> vpxxxx_flash_command, upgrade |-> vpxxxx_upgrade])
 @@ (vp4650 :> [cpu |-> "10210U", bios |-> << Bios("ami", "vp4650_YW6L2514.bin") >>,
                command |-> vpxxxx_flash_command, upgrade |-> vpxxxx_upgrade])

(***************************************************************************)
(* The operator's input lines and int()                                    *)
(***************************************************************************)
\* the lines the operator may type at the prompt
InputLines ==
    { <<"1">>, <<"2">>, <<"3">>, <<"0">>, <<"-","1">>, <<"+","2">>, <<" ","1"," ">>,
      <<"1","0">>, <<"a","m","i">>, <<"c","o","r","e","b","o","o","t">>, <<>> }

RECURSIVE LStrip(_)
LStrip(s) == IF s # <<>> /\ Head(s) = " " THEN LStrip(Tail(s)) ELSE s

RECURSIVE RStrip(_)
RStrip(s) ==
    IF s # <<>> /\ s[Len(s)] = " " THEN RStrip(SubSeq(s, 1, Len(s) - 1)) ELSE s

RECURSIVE DigitsValue(_)
DigitsValue(s) ==
    IF s = <<>> THEN 0
    ELSE 10 * DigitsValue(SubSeq(s, 1, Len(s) - 1)) + (Ord(s[Len(s)]) - Ord("0"))

\* int(line): surrounding blanks dropped, an optional sign, then one digit or
\* more; anything else raises ValueError (ok = FALSE)
PyInt(line) ==
    LET s == RStrip(LStrip(line))
        signed == s # <<>> /\ Head(s) \in {"+", "-"}
        body == IF signed THEN Tail(s) ELSE s
        wellformed == body # <<>> /\ \A i \in 1..Len(body) : body[i] \in Range(Digits)
    IN  IF ~wellformed THEN [ok |-> FALSE, value |-> 0]
        ELSE [ok |-> TRUE,
              value |-> IF signed /\ Head(s) = "-" THEN 0 - DigitsValue(body)
                        ELSE DigitsValue(body)]

(***************************************************************************)
(* State                                                                   *)
(***************************************************************************)
VARIABLES
    catalogParses,  \* configurations.py is well-formed Python (the separator
                    \* between the vp4630 and vp4650 entries is present)
    DEBUGMODE,      \* main.py global: "" (off) or a debug hardware name
    euid,           \* os.geteuid()
    hw,             \* HardwareSnapshot read by flashli.hardware
    pc,             \* position of the run
    device,         \* main(): device
    bios_mode,      \* main(): bios_mode
    offered,        \* the vendor tags printed by the last prompt, in order
    lastInput,      \* the line read by the last input()
    nInvalid,       \* lines read and rejected so far
    selection,      \* main(): selection
    flashCalls,     \* calls of do_flash
    file_path,      \* do_flash(): file_path
    command,        \* the string handed to subprocess.run
    writerCalls,    \* calls of subprocess.run
    writerStatus,   \* exit status of the external writer, <<>> until it exits
    returncode,     \* main(): returncode, <<>> while unset
    listing,        \* lines printed by print_supported_products
    exitStatus      \* process exit status, <<>> while the process runs

vars == << catalogParses, DEBUGMODE, euid, hw, pc, device, bios_mode, offered,
           lastInput, nInvalid, selection, flashCalls, file_path, command,
           writerCalls, writerStatus, returncode, listing, exitStatus >>

\* Python's None
None == "None"

\* model identifiers the hardware may report: every catalog key, and two
\* that are no key (an unrelated product, and a key in upper case)
ModelIds == Range(ConfigurationKeys) \cup { <<"n","u","c">>, StrUpper(fw2) }
BootModes == {"Legacy", "EFI"}
FirmwareVendors == {"ami", "coreboot", "Unknown"}
DebugModes == {"", "fw2b"}
Euids == {0, 1000}

(***************************************************************************)
(* flashli.hardware (the Hardware Identity Provider)                       *)
(***************************************************************************)
get_protectli_device(debugmode) == hw.modelId
is_protectli_device(debugmode) == hw.modelId \in DOMAIN CONFIGURATIONS
get_bios_mode(debugmode) == hw.bootMode

(***************************************************************************)
(* main.py: functions                                                      *)
(***************************************************************************)
\* a variant of the vendor listing in reverse order
Vendors_Reversed(options) ==
    [i \in 1..Len(options) |-> options[Len(options) + 1 - i].vendor]

Vendors(options) == [i \in 1..Len(options) |-> options[i].vendor]

RECURSIVE FirstMatch(_, _)
FirstMatch(options, requested_bios) ==
    IF options = <<>> THEN None
    ELSE IF Head(options).vendor = requested_bios
         THEN Format([pre |-> "images/", post |-> ""], Head(options).file)
    ELSE FirstMatch(Tail(options), requested_bios)

\* a variant of get_image_path that compares the descriptor's file name with
\* the requested vendor
RECURSIVE FirstMatchByFile(_, _)
FirstMatchByFile(options, requested_bios) ==
    IF options = <<>> THEN None
    ELSE IF Head(options).file = requested_bios
         THEN Format([pre |-> "images/", post |-> ""], Head(options).file)
    ELSE FirstMatchByFile(Tail(options), requested_bios)

get_image_path_ByFile(model, requested_bios) ==
    FirstMatchByFile(CONFIGURATIONS[model].bios, requested_bios)

\* a variant of get_image_path that returns the first descriptor's image
get_image_path_First(model, requested_bios) ==
    Format([pre |-> "images/", post |-> ""], Head(CONFIGURATIONS[model].bios).file)

get_image_path(model, requested_bios) ==
    FirstMatch(CONFIGURATIONS[model].bios, requested_bios)

\* the template do_flash formats
do_flash_template ==
    [pre |-> "vendor/flashrom -p internal -w ", post |-> " --ifd -i bios"]

do_flash_command(model, bios) == Format(do_flash_template, get_image_path(model, bios))

\* a variant of print_supported_products without devices.sort()
print_supported_products_Unsorted ==
    [i \in 1..Len(ConfigurationKeys) |-> StrUpper(ConfigurationKeys[i])]

print_supported_products ==
    ListSort([i \in 1..Len(ConfigurationKeys) |-> StrUpper(ConfigurationKeys[i])])

Init ==
    /\ catalogParses \in BOOLEAN
    /\ DEBUGMODE \in DebugModes
    /\ euid \in Euids
    /\ hw \in [modelId : ModelIds, bootMode : BootModes, vendor : FirmwareVendors]
    /\ pc = "start"
    /\ device = <<>>
    /\ bios_mode = None
    /\ offered = <<>>
    /\ lastInput = <<>>
    /\ nInvalid = 0
    /\ selection = None
    /\ flashCalls = 0
    /\ file_path = None
    /\ command = None
    /\ writerCalls = 0
    /\ writerStatus = <<>>
    /\ returncode = <<>>
    /\ listing = <<>>
    /\ exitStatus = <<>>

\* a variant of the import that goes on whether or not the mapping parses
Import_NoCheck ==
    /\ pc = "start"
    /\ pc' = "PrivilegeCheck"
    /\ UNCHANGED << catalogParses, DEBUGMODE, writerStatus, euid, hw, device, bios_mode, offered,
                    lastInput, nInvalid, selection, flashCalls, file_path, command,
                    writerCalls, returncode, listing, exitStatus >>

\* from flashli import configurations: a malformed mapping is a SyntaxError
Import ==
    /\ pc = "start"
    /\ IF catalogParses
       THEN pc' = "PrivilegeCheck" /\ UNCHANGED exitStatus
       ELSE pc' = "ConfigError" /\ exitStatus' = <<1>>
    /\ UNCHANGED << catalogParses, DEBUGMODE, writerStatus, euid, hw, device, bios_mode, offered,
                    lastInput, nInvalid, selection, flashCalls, file_path, command,
                    writerCalls, returncode, listing >>

\* a variant of the privilege check that tests os.geteuid() == 0
PrivilegeCheck_TestsRoot ==
    /\ pc = "PrivilegeCheck"
    /\ IF euid = 0 /\ DEBUGMODE = ""
       THEN pc' = "NotRoot" /\ exitStatus' = <<0>>
       ELSE pc' = "Identify" /\ UNCHANGED exitStatus
    /\ UNCHANGED << catalogParses, DEBUGMODE, writerStatus, euid, hw, device, bios_mode, offered,
                    lastInput, nInvalid, selection, flashCalls, file_path, command,
                    writerCalls, returncode, listing >>

\* if os.geteuid() != 0 and not DEBUGMODE: sys.exit()
PrivilegeCheck ==
    /\ pc = "PrivilegeCheck"
    /\ IF euid # 0 /\ DEBUGMODE = ""
       THEN pc' = "NotRoot" /\ exitStatus' = <<0>>
       ELSE pc' = "Identify" /\ UNCHANGED exitStatus
    /\ UNCHANGED << catalogParses, DEBUGMODE, writerStatus, euid, hw, device, bios_mode, offered,
                    lastInput, nInvalid, selection, flashCalls, file_path, command,
                    writerCalls, returncode, listing >>

\* main(): device = ...; if not is_protectli_device: list the products, sys.exit()
Identify ==
    /\ pc = "Identify"
    /\ device' = get_protectli_device(DEBUGMODE)
    /\ IF ~is_protectli_device(DEBUGMODE)
       THEN /\ listing' = print_supported_products
            /\ pc' = "UnsupportedDevice"
            /\ exitStatus' = <<0>>
       ELSE /\ pc' = "ModeCheck"
            /\ UNCHANGED << listing, exitStatus >>
    /\ UNCHANGED << catalogParses, DEBUGMODE, writerStatus, euid, hw, bios_mode, offered,
                    lastInput, nInvalid, selection, flashCalls, file_path, command,
                    writerCalls, returncode >>

\* a variant of the mode check that compares with 'UEFI', a value the
\* provider never returns
ModeCheck_TestsUEFI ==
    /\ pc = "ModeCheck"
    /\ bios_mode' = get_bios_mode(DEBUGMODE)
    /\ IF bios_mode' = "UEFI"
       THEN pc' = "WrongBootMode" /\ exitStatus' = <<0>>
       ELSE pc' = "OfferSelection" /\ UNCHANGED exitStatus
    /\ UNCHANGED << catalogParses, DEBUGMODE, writerStatus, euid, hw, device, offered,
                    lastInput, nInvalid, selection, flashCalls, file_path, command,
                    writerCalls, returncode, listing >>

\* a variant of the mode check with the test inverted
ModeCheck_Inverted ==
    /\ pc = "ModeCheck"
    /\ bios_mode' = get_bios_mode(DEBUGMODE)
    /\ IF bios_mode' # "EFI"
       THEN pc' = "WrongBootMode" /\ exitStatus' = <<0>>
       ELSE pc' = "OfferSelection" /\ UNCHANGED exitStatus
    /\ UNCHANGED << catalogParses, DEBUGMODE, writerStatus, euid, hw, device, offered,
                    lastInput, nInvalid, selection, flashCalls, file_path, command,
                    writerCalls, returncode, listing >>

\* main(): bios_mode = ...; if bios_mode == 'EFI': sys.exit()
ModeCheck ==
    /\ pc = "ModeCheck"
    /\ bios_mode' = get_bios_mode(DEBUGMODE)
    /\ IF bios_mode' = "EFI"
       THEN pc' = "WrongBootMode" /\ exitStatus' = <<0>>
       ELSE pc' = "OfferSelection" /\ UNCHANGED exitStatus
    /\ UNCHANGED << catalogParses, DEBUGMODE, writerStatus, euid, hw, device, offered,
                    lastInput, nInvalid, selection, flashCalls, file_path, command,
                    writerCalls, returncode, listing >>

\* a variant of get_user_selection that returns the only option of a model
\* with one descriptor without reading a line
GetUserSelection_AutoSelect ==
    /\ pc = "OfferSelection"
    /\ LET available_options == CONFIGURATIONS[device].bios IN
       IF Len(available_options) = 1
       THEN /\ selection' = available_options[1].vendor
            /\ pc' = "Dispatch"
            /\ UNCHANGED << offered, lastInput, nInvalid, exitStatus >>
       ELSE /\ offered' = Vendors(available_options)
            /\ \E line \in InputLines :
                 LET user_input == PyInt(line) IN
                 /\ lastInput' = line
                 /\ IF ~user_input.ok
                    THEN /\ pc' = "Crashed"
                         /\ exitStatus' = <<1>>
                         /\ UNCHANGED << selection, nInvalid >>
                    ELSE IF 0 < user_input.value /\ user_input.value <= Len(available_options)
                    THEN /\ selection' = available_options[user_input.value].vendor
                         /\ pc' = "Dispatch"
                         /\ UNCHANGED << nInvalid, exitStatus >>
                    ELSE /\ nInvalid < MaxInvalid
                         /\ nInvalid' = nInvalid + 1
                         /\ UNCHANGED << pc, selection, exitStatus >>
    /\ UNCHANGED << catalogParses, DEBUGMODE, writerStatus, euid, hw, device, bios_mode,
                    flashCalls, file_path, command, writerCalls, returncode, listing >>

\* get_user_selection(device): one pass of the while loop, from its test to
\* the return or the next test; input() supplies the operator's line
GetUserSelection ==
    /\ pc = "OfferSelection"
    /\ LET available_options == CONFIGURATIONS[device].bios IN
       IF "" \in Range(Vendors(available_options))
       THEN \* the loop test fails: the function falls off its end
            /\ selection' = None
            /\ pc' = "Dispatch"
            /\ UNCHANGED << offered, lastInput, nInvalid, exitStatus >>
       ELSE /\ offered' = Vendors(available_options)
            /\ \E line \in InputLines :
                 LET user_input == PyInt(line) IN
                 /\ lastInput' = line
                 /\ IF ~user_input.ok
                    THEN \* ValueError, uncaught
                         /\ pc' = "Crashed"
                         /\ exitStatus' = <<1>>
                         /\ UNCHANGED << selection, nInvalid >>
                    ELSE IF 0 < user_input.value /\ user_input.value <= Len(available_options)
                    THEN /\ selection' = available_options[user_input.value].vendor
                         /\ pc' = "Dispatch"
                         /\ UNCHANGED << nInvalid, exitStatus >>
                    ELSE /\ nInvalid < MaxInvalid
                         /\ nInvalid' = nInvalid + 1
                         /\ UNCHANGED << pc, selection, exitStatus >>
    /\ UNCHANGED << catalogParses, DEBUGMODE, writerStatus, euid, hw, device, bios_mode,
                    flashCalls, file_path, command, writerCalls, returncode, listing >>

\* a variant of do_flash without the debug-mode return
DoFlash_AlwaysRuns ==
    /\ pc = "Dispatch"
    /\ flashCalls' = flashCalls + 1
    /\ file_path' = get_image_path(device, selection)
    /\ command' = do_flash_command(device, selection)
    /\ writerCalls' = writerCalls + 1
    /\ pc' = "AwaitExecutor"
    /\ UNCHANGED returncode
    /\ UNCHANGED << catalogParses, DEBUGMODE, writerStatus, euid, hw, device, bios_mode, offered,
                    lastInput, nInvalid, selection, listing, exitStatus >>

\* main(): returncode = do_flash(device, selection), up to the return of
\* do_flash in debug mode or to the call of subprocess.run otherwise
DoFlash ==
    /\ pc = "Dispatch"
    /\ flashCalls' = flashCalls + 1
    /\ IF DEBUGMODE # ""
       THEN /\ returncode' = <<0>>
            /\ pc' = "Report"
            /\ UNCHANGED << file_path, command, writerCalls >>
       ELSE /\ file_path' = get_image_path(device, selection)
            /\ command' = do_flash_command(device, selection)
            /\ writerCalls' = writerCalls + 1
            /\ pc' = "AwaitExecutor"
            /\ UNCHANGED returncode
    /\ UNCHANGED << catalogParses, DEBUGMODE, writerStatus, euid, hw, device, bios_mode, offered,
                    lastInput, nInvalid, selection, listing, exitStatus >>

\* a variant of do_flash that returns 1 for every failure of the writer
ExecutorReturns_Collapsed ==
    /\ pc = "AwaitExecutor"
    /\ \E status \in 0..MaxExitStatus :
         /\ writerStatus' = <<status>>
         /\ returncode' = IF status = 0 THEN <<0>> ELSE <<1>>
    /\ pc' = "Report"
    /\ UNCHANGED << catalogParses, DEBUGMODE, euid, hw, device, bios_mode, offered,
                    lastInput, nInvalid, selection, flashCalls, file_path, command,
                    writerCalls, listing, exitStatus >>

\* subprocess.run returns; do_flash returns completed_process.returncode
ExecutorReturns ==
    /\ pc = "AwaitExecutor"
    /\ \E status \in 0..MaxExitStatus :
         /\ writerStatus' = <<status>>
         /\ returncode' = writerStatus'
    /\ pc' = "Report"
    /\ UNCHANGED << catalogParses, DEBUGMODE, euid, hw, device, bios_mode, offered,
                    lastInput, nInvalid, selection, flashCalls, file_path, command,
                    writerCalls, listing, exitStatus >>

\* subprocess.run raises (the program named by the string is not found)
ExecutorRaises ==
    /\ pc = "AwaitExecutor"
    /\ pc' = "Crashed"
    /\ exitStatus' = <<1>>
    /\ UNCHANGED << catalogParses, DEBUGMODE, writerStatus, euid, hw, device, bios_mode, offered,
                    lastInput, nInvalid, selection, flashCalls, file_path, command,
                    writerCalls, returncode, listing >>

\* a variant of main() that flashes again after a failure
Report_Retry ==
    /\ pc = "Report"
    /\ IF returncode = <<0>>
       THEN pc' = "FlashSucceeded" /\ exitStatus' = <<0>>
       ELSE pc' = "Dispatch" /\ UNCHANGED exitStatus
    /\ UNCHANGED << catalogParses, DEBUGMODE, writerStatus, euid, hw, device, bios_mode, offered,
                    lastInput, nInvalid, selection, flashCalls, file_path, command,
                    writerCalls, returncode, listing >>

\* main(): if returncode == 0: ... else: ...; main returns, the process ends
Report ==
    /\ pc = "Report"
    /\ pc' = IF returncode = <<0>> THEN "FlashSucceeded" ELSE "FlashFailed"
    /\ exitStatus' = <<0>>
    /\ UNCHANGED << catalogParses, DEBUGMODE, writerStatus, euid, hw, device, bios_mode, offered,
                    lastInput, nInvalid, selection, flashCalls, file_path, command,
                    writerCalls, returncode, listing >>

Next ==
    \/ Import
    \/ PrivilegeCheck
    \/ Identify
    \/ ModeCheck
    \/ GetUserSelection
    \/ DoFlash
    \/ ExecutorReturns
    \/ ExecutorRaises
    \/ Report

Spec == Init /\ [][Next]_vars

TypeOK ==
    /\ pc \in {"start", "ConfigError", "PrivilegeCheck", "NotRoot", "Identify",
               "UnsupportedDevice", "ModeCheck", "WrongBootMode", "OfferSelection",
               "Dispatch", "AwaitExecutor", "Report", "FlashSucceeded", "FlashFailed",
               "Crashed"}
    /\ nInvalid \in 0..MaxInvalid
    /\ flashCalls \in 0..1
    /\ writerCalls \in 0..1

(***************************************************************************)
(* Properties                                                              *)
(***************************************************************************)
InCatalog(id) == id \in DOMAIN CONFIGURATIONS

\* the states in which a run that entered main() has ended
EngineTerminal ==
    {"UnsupportedDevice", "WrongBootMode", "FlashSucceeded", "FlashFailed", "Crashed"}

\* the states from the selection prompt onwards
FromSelectionOn ==
    {"OfferSelection", "Dispatch", "AwaitExecutor", "Report", "FlashSucceeded",
     "FlashFailed"}

\* C1, as claimed: with boot mode UEFI every run that ends in main() ends in
\* WrongBootMode, whether or not the model identifier is in the catalog, and
\* never reaches the selection or the flash.
C1_Original ==
    hw.bootMode = "EFI" =>
        /\ pc \notin FromSelectionOn
        /\ pc \in EngineTerminal => pc = "WrongBootMode"

\* C1, amended: with boot mode UEFI a run never reaches the selection or the
\* flash; it ends in WrongBootMode when the model identifier is in the
\* catalog and in UnsupportedDevice when it is not (Identify comes first).
C1_Amended ==
    hw.bootMode = "EFI" =>
        /\ pc \notin FromSelectionOn
        /\ flashCalls = 0 /\ writerCalls = 0
        /\ pc \in EngineTerminal =>
              pc = IF InCatalog(hw.modelId) THEN "WrongBootMode" ELSE "UnsupportedDevice"

C1_Witness ==
    pc = "WrongBootMode" /\ hw.bootMode = "EFI" /\ InCatalog(hw.modelId)

\* C2: do_flash is called, and the external writer invoked, only after Identify
\* found the model identifier in the catalog and ModeCheck observed Legacy; a
\* run whose model is absent or whose mode is not Legacy dispatches no flash.
C2_FlashOnlyAfterChecks ==
    /\ (pc \in {"Dispatch", "AwaitExecutor", "Report", "FlashSucceeded", "FlashFailed"}
          \/ flashCalls > 0 \/ writerCalls > 0)
         => /\ device = hw.modelId /\ InCatalog(device)
            /\ bios_mode = hw.bootMode /\ bios_mode = "Legacy"
    /\ (~InCatalog(hw.modelId) \/ hw.bootMode # "Legacy")
         => flashCalls = 0 /\ writerCalls = 0

C2_Witness ==
    writerCalls = 1 /\ flashCalls = 1 /\ InCatalog(hw.modelId) /\ hw.bootMode = "Legacy"

\* the descriptors of model m whose vendor tag is v
DescriptorsOf(m, v) ==
    {i \in 1..Len(CONFIGURATIONS[m].bios) : CONFIGURATIONS[m].bios[i].vendor = v}

\* the override condition of the Resolve step: the model declares an override
\* template and the detected firmware vendor is known and is not the requested
OverrideCondition ==
    /\ "override" \in DOMAIN CONFIGURATIONS[device]
    /\ hw.vendor \notin {"Unknown", selection}

\* C3, as claimed: when no override condition holds, the command handed to the
\* external writer is the model's own 'command' template of the catalog with
\* the image path substituted.
C3_Original ==
    (pc = "AwaitExecutor" /\ ~OverrideCondition) =>
        command = Format(CONFIGURATIONS[device].command, file_path)

\* C4: for every catalog model and every vendor tag v of its descriptor list,
\* the image path is 'images/' followed by the file name of the one
\* descriptor whose vendor tag is v; the path do_flash resolves is that path.
C4_ImagePath ==
    /\ \A m \in DOMAIN CONFIGURATIONS : \A i \in 1..Len(CONFIGURATIONS[m].bios) :
         LET d == CONFIGURATIONS[m].bios[i] IN
         /\ DescriptorsOf(m, d.vendor) = {i}
         /\ get_image_path(m, d.vendor) = "images/" \o d.file
    /\ pc = "AwaitExecutor" =>
         \E i \in DescriptorsOf(device, selection) :
            file_path = "images/" \o CONFIGURATIONS[device].bios[i].file

C4_Witness ==
    /\ pc = "AwaitExecutor"
    /\ device = vp4630
    /\ selection = "coreboot"
    /\ file_path = "images/protectli_vp4630_v1.0.17.rom"

\* C5, as claimed: when the override condition holds (a model that declares
\* an override template, detected vendor other than the requested one) the
\* command handed to the external writer is the override template with the
\* image path substituted; otherwise the override command is not used.
C5_Original ==
    pc = "AwaitExecutor" =>
        IF OverrideCondition
        THEN command = Format(CONFIGURATIONS[device].override, file_path)
        ELSE command # Format(overrider_command, file_path)

Accepted(line, dev) ==
    /\ PyInt(line).ok
    /\ PyInt(line).value \in 1..Len(CONFIGURATIONS[dev].bios)

\* C7, as claimed: a line that is not one of the offered options leaves the
\* run in OfferSelection with no flash dispatched, and an offered option then
\* resolves to the same vendor tag whatever number of such lines came first.
C7_Original ==
    [][pc = "OfferSelection" =>
         IF Accepted(lastInput', device)
         THEN /\ pc' = "Dispatch"
              /\ selection' = CONFIGURATIONS[device].bios[PyInt(lastInput').value].vendor
         ELSE /\ pc' = "OfferSelection"
              /\ flashCalls' = 0 /\ writerCalls' = 0]_vars

\* the listing of the catalog keys, upper case, in lexicographic order
ExpectedListing ==
    << StrUpper(fw1), StrUpper(fw2), StrUpper(fw2b), StrUpper(fw4a), StrUpper(fw4b),
       StrUpper(fw4c), StrUpper(fw6a), StrUpper(fw6ar), StrUpper(fw6b), StrUpper(fw6br),
       StrUpper(fw6br2), StrUpper(fw6c), StrUpper(fw6d), StrUpper(fw6e), StrUpper(fw6m),
       StrUpper(vp2410), StrUpper(vp2410r), StrUpper(vp4630), StrUpper(vp4650) >>

\* C8: a model identifier absent from the catalog ends the run in
\* UnsupportedDevice, and the listing printed there holds every catalog key
\* in upper case, once each and nothing else, in ascending order.
C8_Listing ==
    /\ (~InCatalog(hw.modelId) /\ pc \in EngineTerminal) => pc = "UnsupportedDevice"
    /\ pc = "UnsupportedDevice" =>
         /\ ~InCatalog(hw.modelId)
         /\ Len(listing) = Cardinality(DOMAIN CONFIGURATIONS)
         /\ Range(listing) = {StrUpper(k) : k \in DOMAIN CONFIGURATIONS}
         /\ \A i \in 1..Len(listing) : \A j \in 1..Len(listing) :
              i < j => StrLess(listing[i], listing[j])
    /\ pc # "UnsupportedDevice" => listing = <<>>

C8_Witness ==
    /\ pc = "UnsupportedDevice"
    /\ hw.modelId = <<"n","u","c">>
    /\ listing = ExpectedListing
    /\ listing[1] = <<"F","W","1">>
    /\ listing[11] = <<"F","W","6","B","R","2">>

\* C9, as claimed: UnsupportedDevice and WrongBootMode end the process with a
\* non-zero exit status.
C9_Original ==
    pc \in {"UnsupportedDevice", "WrongBootMode"} =>
        exitStatus # <<>> /\ exitStatus # <<0>>

\* C10: do_flash is called and the external writer invoked at most once in a
\* run; once a return code is held the run only moves on to FlashSucceeded or
\* FlashFailed, and a run that has ended takes no further step.
C10_AtMostOneWrite ==
    /\ [](flashCalls <= 1 /\ writerCalls <= 1)
    /\ [][returncode # <<>> => pc' \in {"FlashSucceeded", "FlashFailed"}]_vars
    /\ [][pc \notin EngineTerminal]_vars

C10_Witness ==
    pc = "FlashFailed" /\ writerCalls = 1 /\ flashCalls = 1 /\ exitStatus # <<>>

\* a catalog key made of lower-case letters and digits, at least one
LowercaseToken(k) ==
    /\ k # <<>>
    /\ \A i \in 1..Len(k) : k[i] \in Range(Lower) \cup Range(Digits)

\* C11: every catalog key is a non-empty lowercase token, and the entry it
\* looks up has a descriptor list that is not empty and whose vendor tags are
\* pairwise distinct; so has the entry of the device a run has identified.
C11_CatalogInvariant ==
    /\ \A k \in DOMAIN CONFIGURATIONS :
         LET descriptors == CONFIGURATIONS[k].bios IN
         /\ LowercaseToken(k)
         /\ Len(descriptors) >= 1
         /\ \A i \in 1..Len(descriptors) : \A j \in 1..Len(descriptors) :
              descriptors[i].vendor = descriptors[j].vendor => i = j
    /\ Range(ConfigurationKeys) = DOMAIN CONFIGURATIONS
    /\ pc \in FromSelectionOn =>
         /\ Len(CONFIGURATIONS[device].bios) >= 1
         /\ Cardinality(Range(Vendors(CONFIGURATIONS[device].bios)))
              = Len(CONFIGURATIONS[device].bios)

C11_Witness ==
    /\ pc = "OfferSelection"
    /\ device = fw6br2
    /\ Len(CONFIGURATIONS[device].bios) = Cardinality({"ami", "coreboot"})
    /\ offered = <<"ami", "coreboot">>

\* C12: when the catalog is malformed (the separator between the vp4630 and
\* vp4650 entries is missing) the process aborts at the import with an error
\* status, before the privilege check, any hardware read, prompt or flash.
C12_MalformedCatalogAborts ==
    ~catalogParses =>
        /\ pc \in {"start", "ConfigError"}
        /\ pc = "ConfigError" <=> exitStatus # <<>>
        /\ exitStatus \in {<<>>, <<1>>}
        /\ device = <<>> /\ bios_mode = None
        /\ offered = <<>> /\ lastInput = <<>> /\ selection = None
        /\ flashCalls = 0 /\ writerCalls = 0 /\ listing = <<>>

C12_Witness ==
    ~catalogParses /\ pc = "ConfigError" /\ exitStatus = <<1>> /\ device = <<>>

\* the states after do_flash has been called
AfterDoFlash == {"AwaitExecutor", "Report", "FlashSucceeded", "FlashFailed"}

\* C13: in debug mode do_flash never invokes the external writer and returns
\* 0, so a run that was dispatched goes on to FlashSucceeded only; with debug
\* mode off do_flash invokes the external writer exactly once.
C13_DryRun ==
    /\ DEBUGMODE # "" =>
         /\ writerCalls = 0 /\ writerStatus = <<>>
         /\ command = None /\ file_path = None
         /\ pc \notin {"AwaitExecutor", "FlashFailed"}
         /\ flashCalls = 1 => (returncode = <<0>> /\ pc \in {"Report", "FlashSucceeded"})
    /\ DEBUGMODE = "" =>
         /\ writerCalls = flashCalls
         /\ flashCalls = 1 => (command # None /\ (pc \in AfterDoFlash \/ pc = "Crashed"))

C13_Witness ==
    /\ DEBUGMODE # ""
    /\ pc = "FlashSucceeded"
    /\ device = vp4650
    /\ selection = "ami"
    /\ flashCalls = 1 /\ writerCalls = 0

\* C14, as claimed: a line that is none of the offered options, a line that
\* is no number included, keeps the run at the prompt, which is shown again;
\* the process does not end because of it.
C14_Original ==
    [][(pc = "OfferSelection" /\ ~Accepted(lastInput', device)) =>
          /\ pc' = "OfferSelection"
          /\ exitStatus' = <<>>
          /\ offered' = Vendors(CONFIGURATIONS[device].bios)]_vars

\* the states from the call of do_flash onwards
FromDispatchOn == {"Dispatch"} \cup AfterDoFlash

\* C15: do_flash is reached only after the prompt was shown and a line was
\* read and accepted, also for a model with a single descriptor.
C15_NoAutoSelect ==
    (pc \in FromDispatchOn \/ flashCalls > 0) =>
        /\ offered # <<>>
        /\ lastInput # <<>>
        /\ Accepted(lastInput, device)

C15_Witness ==
    /\ pc = "Dispatch"
    /\ device = fw4c
    /\ Len(CONFIGURATIONS[device].bios) = Len(<<"ami">>)
    /\ lastInput = <<"1">>
    /\ selection = "ami"

\* C16: the prompt lists the model's vendor tags in the order of its
\* descriptor list, and the accepted option number i resolves to the vendor
\* tag of the i-th descriptor, which is the i-th tag listed.
C16_DeclarationOrder ==
    /\ offered # <<>> =>
         /\ Len(offered) = Len(CONFIGURATIONS[device].bios)
         /\ \A i \in 1..Len(offered) : offered[i] = CONFIGURATIONS[device].bios[i].vendor
    /\ pc \in FromDispatchOn =>
         LET i == PyInt(lastInput).value IN
         /\ i \in 1..Len(CONFIGURATIONS[device].bios)
         /\ selection = CONFIGURATIONS[device].bios[i].vendor
         /\ selection = offered[i]

C16_Witness ==
    /\ pc = "Dispatch"
    /\ device = vp2410r
    /\ offered = <<"ami", "coreboot">>
    /\ lastInput = <<"+","2">>
    /\ selection = "coreboot"

\* C17: the selection that reaches do_flash is a vendor tag of the device's
\* descriptor list, so get_image_path finds a descriptor for it and the image
\* path handed on is never None.
C17_ImagePathDefined ==
    /\ pc \in FromDispatchOn =>
         /\ selection \in {CONFIGURATIONS[device].bios[i].vendor :
                             i \in 1..Len(CONFIGURATIONS[device].bios)}
         /\ get_image_path(device, selection) # None
    /\ writerCalls > 0 => file_path # None

C17_Witness ==
    /\ pc = "AwaitExecutor"
    /\ device = fw6m
    /\ selection = "ami"
    /\ file_path = "images/FW6_825_KBU6LA09.bin"

\* C18: a run of a user other than root with debug mode off ends at the
\* privilege check, before the device is identified, a prompt shown or
\* do_flash called; the external writer is invoked only in a run of root.
C18_PrivilegeGate ==
    /\ (euid # 0 /\ DEBUGMODE = "") =>
         /\ pc \in {"start", "ConfigError", "PrivilegeCheck", "NotRoot"}
         /\ device = <<>> /\ bios_mode = None /\ listing = <<>>
         /\ offered = <<>> /\ selection = None
         /\ flashCalls = 0 /\ writerCalls = 0
    /\ (writerCalls > 0 \/ pc = "AwaitExecutor" \/ writerStatus # <<>>) => euid = 0

C18_Witness ==
    /\ euid # 0 /\ DEBUGMODE = ""
    /\ pc = "NotRoot"
    /\ exitStatus # <<>>
    /\ device = <<>>

\* the terminal states of the Decision Engine
DecisionTerminal ==
    {"UnsupportedDevice", "WrongBootMode", "FlashSucceeded", "FlashFailed"}

\* C19, as claimed: a run of main() that ends, ends in one of
\* UnsupportedDevice, WrongBootMode, FlashSucceeded and FlashFailed; short of
\* them a run is only ever on its way, at the prompt or in the executor call.
C19_Original ==
    (exitStatus # <<>> /\ pc \notin {"ConfigError", "NotRoot"}) => pc \in DecisionTerminal

====
